---- MODULE Spec2Model ----
(***************************************************************************)
(* inline_arc::Arc<T> (src/src/lib.rs): a reference-counted pointer that   *)
(* keeps its payload inline until it is first shared.                      *)
(*                                                                         *)
(* cells   the Arc<T> values the caller holds, one per slot; a slot's      *)
(*         content is the ArcData<T> inside the UnsafeCell                 *)
(* blocks  the std::sync::Arc allocations (payload, strong, weak)          *)
(* panicked  the last call unwound with a panic instead of returning       *)
(* gone    the last call handed a payload to the caller and destroyed it   *)
(*         as well                                                         *)
(* ub      a call touched freed memory: the program has no defined state   *)
(* scn     how far the run has followed tests::can_make_mut, and how often *)
(*         T::clone ran on the way                                         *)
(* trail   the calls made so far, while they follow one of the Scenarios   *)
(* rcells, rblocks   the same calls made on std::sync::Arc                 *)
(*         (tests::make_mut_std), run side by side under SpecStd           *)
(* thr     under SpecPar, the two threads that each own one cell: where    *)
(*         the thread is inside clone, the handle clone took out of the    *)
(*         cell, and the clone the thread got back                         *)
(***************************************************************************)
EXTENDS Integers, FiniteSets, Sequences, TLC

VARIABLES cells, blocks, panicked, gone, ub, scn, trail, rcells, rblocks, thr

rvars == <<rcells, rblocks>>
vars == <<cells, blocks, panicked, gone, ub, scn, trail, rcells, rblocks, thr>>

\* ---------------------------------------------------------------- bounds
MaxCells == 2
MaxBlocks == 2
MaxVal == 2
MaxWeak == 1

Cells == 1..MaxCells
Blocks == 1..MaxBlocks
\* the payloads of the runs of Spec
Values == 0..MaxVal
\* the threads of SpecPar; thread t owns cell t
Threads == 1..2

\* the payloads of tests::can_make_mut: from new(5) up to the 12 it ends with
InitVal == 5
TestMax == 12
TestVals == InitVal..TestMax

\* ------------------------------------------------------------- ArcData<T>
Inline(v) == [st |-> "Inline", v |-> v, b |-> 0]
Shared(b) == [st |-> "Shared", v |-> 0, b |-> b]
Poisoned == [st |-> "Poisoned", v |-> 0, b |-> 0]
\* a slot holding no Arc (never created, moved out of, or dropped)
Dead == [st |-> "Dead", v |-> 0, b |-> 0]

IsInline(c) == cells[c].st = "Inline"
IsShared(c) == cells[c].st = "Shared"
IsPoisoned(c) == cells[c].st = "Poisoned"
IsLive(c) == cells[c].st # "Dead"

\* ------------------------------------------------- std::sync::Arc / Weak
\* An allocation: the payload, the strong count and the number of Weak
\* handles.  The payload is dropped when strong reaches 0, the allocation is
\* released when no Weak is left either.
NoBlock == [alloc |-> FALSE, val |-> 0, strong |-> 0, weak |-> 0]

Settle(blk) ==
  IF blk.strong > 0 THEN blk
  ELSE IF blk.weak > 0 THEN [blk EXCEPT !.val = 0]
  ELSE NoBlock

StdNew(B, b, v) ==
  [B EXCEPT ![b] = [alloc |-> TRUE, val |-> v, strong |-> 1, weak |-> 0]]

StdClone(B, b) == [B EXCEPT ![b].strong = @ + 1]

StdDrop(B, b) == [B EXCEPT ![b] = Settle([@ EXCEPT !.strong = @ - 1])]

StdDowngrade(B, b) == [B EXCEPT ![b].weak = @ + 1]

WeakDrop(B, b) == [B EXCEPT ![b] = Settle([@ EXCEPT !.weak = @ - 1])]

Min(S) == CHOOSE x \in S : \A y \in S : x <= y

\* A cell whose handle outlived the payload of its block.
Dangling(c) == IsShared(c) /\ blocks[cells[c].b].strong = 0

\* The allocator hands out an address no allocation occupies; an address a
\* dangling handle still names is not reused, so that Dangling stays exact.
FreeBlocks ==
  {b \in Blocks : ~blocks[b].alloc /\ \A c \in Cells : ~(IsShared(c) /\ cells[c].b = b)}

FreeCells == {c \in Cells : ~IsLive(c)}

\* Every payload there is lies in S.
Bounded(S) ==
  /\ \A c \in Cells : IsInline(c) => cells[c].v \in S
  /\ \A b \in Blocks : blocks[b].strong > 0 => blocks[b].val \in S

\* ------------------------------------------------------------ the caller
\* What the caller does through the &mut T that make_mut and get_mut return.
Writes == {"nop", "inc", "dbl"}

Apply(w, v) == IF w = "inc" THEN v + 1 ELSE IF w = "dbl" THEN v * 2 ELSE v

\* What a call hands back: its kind, and the value, count, cell or block.
Ret(kind, v) == [kind |-> kind, v |-> v]

PanicRet == Ret("panic", 0)

Call(op, c, n, w) == [op |-> op, c |-> c, n |-> n, w |-> w]

\* tests::can_make_mut, call by call.
Script ==
  << Call("new", 1, InitVal, "nop"),
     Call("make_mut", 1, 0, "inc"),
     Call("clone", 1, 2, "nop"),
     Call("make_mut", 1, 0, "inc"),
     Call("make_mut", 1, 0, "inc"),
     Call("make_mut", 2, 0, "dbl") >>

Off == [k |-> -1, dups |-> 0]

\* The run is at call k of the script as long as every call so far was the
\* script's; dups counts the T::clone calls made on the way.
Track(call, duped) ==
  IF scn.k >= 0 /\ scn.k < Len(Script) /\ Script[scn.k + 1] = call
  THEN [k |-> scn.k + 1, dups |-> scn.dups + (IF duped THEN 1 ELSE 0)]
  ELSE Off

\* A thread: pc is where it stands (not started, between calls, inside clone
\* after the mem::replace, inside clone after val.clone(), unwound), val the
\* block of the handle clone took out of the cell, got the block of the
\* clone it holds; 0 for none.
Thread(pc, val, got) == [pc |-> pc, val |-> val, got |-> got]

Unborn == Thread("unborn", 0, 0)

\* Call sequences of the API, from the first call on: what get_mut, new,
\* make_mut, downgrade and the drops are called on in turn.
GetMutScenario ==
  << Call("new", 1, 1, "nop"),
     Call("clone", 1, 2, "nop"),
     Call("get_mut", 1, 0, "nop"),
     Call("get_mut", 2, 0, "nop"),
     Call("drop", 2, 0, "nop"),
     Call("get_mut", 1, 0, "nop") >>

NewScenario ==
  << Call("new", 1, 2, "nop"),
     Call("strong_count", 1, 0, "nop"),
     Call("weak_count", 1, 0, "nop"),
     Call("get_mut", 1, 0, "nop"),
     Call("deref", 1, 0, "nop") >>

DropCloneScenario ==
  << Call("new", 1, 0, "nop"),
     Call("clone", 1, 2, "nop"),
     Call("drop", 2, 0, "nop") >>

MakeMutScenario ==
  << Call("new", 1, 1, "nop"),
     Call("clone", 1, 2, "nop"),
     Call("make_mut", 1, 0, "inc") >>

DowngradeScenario ==
  << Call("new", 1, 1, "nop"),
     Call("deref", 1, 0, "nop"),
     Call("downgrade", 1, 0, "nop") >>

Scenarios ==
  {GetMutScenario, NewScenario, DropCloneScenario, MakeMutScenario, DowngradeScenario}

IsPrefix(h, s) == Len(h) <= Len(s) /\ \A i \in 1..Len(h) : h[i] = s[i]

OffTrail == << Call("off", 0, 0, "nop") >>

\* The trail grows by the call as long as it stays on a scenario.
Follow(call) ==
  IF trail # OffTrail /\ \E s \in Scenarios : IsPrefix(Append(trail, call), s)
  THEN Append(trail, call)
  ELSE OffTrail

Init ==
  /\ cells = [c \in Cells |-> Dead]
  /\ blocks = [b \in Blocks |-> NoBlock]
  /\ panicked = FALSE
  /\ gone = FALSE
  /\ ub = FALSE
  /\ scn = [k |-> 0, dups |-> 0]
  /\ trail = << >>
  /\ rcells = [c \in Cells |-> 0]
  /\ rblocks = [b \in Blocks |-> NoBlock]
  /\ thr = [t \in Threads |-> Unborn]

\* A call the caller can make on cell c: the cell exists and its handle, if it
\* has one, names a block whose payload is still there.
Usable(c) == ~ub /\ IsLive(c) /\ ~Dangling(c)

\* A Poisoned arm that returns to the caller instead of unwinding.
PanicSwallowed(c) ==
  /\ IsPoisoned(c)
  /\ panicked' = FALSE
  /\ gone' = FALSE
  /\ scn' = Off
  /\ trail' = OffTrail
  /\ UNCHANGED <<cells, blocks, ub>>

\* The panic! of a Poisoned arm: nothing is written, the call unwinds.
Panic(c) ==
  /\ IsPoisoned(c)
  /\ panicked' = TRUE
  /\ gone' = FALSE
  /\ scn' = Off
  /\ trail' = OffTrail
  /\ UNCHANGED <<cells, blocks, ub>>

\* The call returns to the caller; twice: a payload it hands over was
\* destroyed on the way out as well.
Returned(call, duped, twice) ==
  /\ panicked' = FALSE
  /\ gone' = twice
  /\ scn' = Track(call, duped)
  /\ trail' = Follow(call)
  /\ UNCHANGED ub

Returns(call, duped) == Returned(call, duped, FALSE)

\* ------------------------------------------------------------- Arc::new
\* A constructor that allocates the block at once, as std::sync::Arc::new.
ArcNewShared(c, v) ==
  /\ ~ub
  /\ FreeCells # {} /\ c = Min(FreeCells)
  /\ FreeBlocks # {}
  /\ blocks' = StdNew(blocks, Min(FreeBlocks), v)
  /\ cells' = [cells EXCEPT ![c] = Shared(Min(FreeBlocks))]
  /\ Returns(Call("new", c, v, "nop"), FALSE)

ArcNew(c, v) ==
  /\ ~ub
  /\ FreeCells # {} /\ c = Min(FreeCells)
  /\ cells' = [cells EXCEPT ![c] = Inline(v)]
  /\ Returns(Call("new", c, v, "nop"), FALSE)
  /\ UNCHANGED blocks

\* --------------------------------------------------------- Deref::deref
DerefRet(c) ==
  IF IsInline(c) THEN Ret("val", cells[c].v)
  ELSE IF IsShared(c) THEN Ret("val", blocks[cells[c].b].val)
  ELSE PanicRet

ArcDeref(c) ==
  /\ Usable(c)
  /\ \/ /\ DerefRet(c).kind = "val"
        /\ Returns(Call("deref", c, 0, "nop"), FALSE)
        /\ UNCHANGED <<cells, blocks>>
     \/ Panic(c)

\* --------------------------------------------------------- Clone::clone
\* A promotion that writes Shared(shared) back without the clone: two cells
\* on a block that counts one.
CloneInlineUncounted(c, d, b) ==
  /\ IsInline(c)
  /\ blocks' = StdNew(blocks, b, cells[c].v)
  /\ cells' = [cells EXCEPT ![c] = Shared(b), ![d] = Shared(b)]

\* Inline arm: the payload moves into a new allocation b; self gets
\* shared.clone() written back, the caller gets shared, in slot d.
CloneInline(c, d, b) ==
  /\ IsInline(c)
  /\ blocks' = StdClone(StdNew(blocks, b, cells[c].v), b)
  /\ cells' = [cells EXCEPT ![c] = Shared(b), ![d] = Shared(b)]

\* Shared arm: mem::replace left Poisoned in self and nothing is written
\* back; the caller gets val.clone(), and val, the handle taken out of self,
\* is dropped at the end of the arm.
CloneShared(c, d) ==
  /\ IsShared(c)
  /\ blocks' = StdDrop(StdClone(blocks, cells[c].b), cells[c].b)
  /\ cells' = [cells EXCEPT ![c] = Poisoned, ![d] = Shared(cells[c].b)]

\* The slot the returned cell goes to.
CloneRet(c) == IF IsPoisoned(c) THEN PanicRet ELSE Ret("cell", Min(FreeCells))

ArcClone(c) ==
  /\ Usable(c)
  /\ \/ /\ FreeCells # {}
        /\ \/ /\ FreeBlocks # {}
              /\ CloneInline(c, CloneRet(c).v, Min(FreeBlocks))
           \/ CloneShared(c, CloneRet(c).v)
        /\ Returns(Call("clone", c, CloneRet(c).v, "nop"), FALSE)
     \/ Panic(c)

\* -------------------------------------------------------- Arc::downgrade
\* Inline arm: promote into a new allocation b, derive the Weak, write
\* Shared(shared) back.
DowngradeInline(c, b) ==
  /\ IsInline(c)
  /\ blocks' = StdDowngrade(StdNew(blocks, b, cells[c].v), b)
  /\ cells' = [cells EXCEPT ![c] = Shared(b)]

\* Shared arm: mem::replace left Poisoned in self and nothing is written
\* back; the Weak is derived from val, then val is dropped.
DowngradeShared(c) ==
  /\ IsShared(c)
  /\ blocks' = StdDrop(StdDowngrade(blocks, cells[c].b), cells[c].b)
  /\ cells' = [cells EXCEPT ![c] = Poisoned]

\* The block the returned Weak names.
DowngradeRet(c) ==
  IF IsInline(c) THEN Ret("weak", Min(FreeBlocks))
  ELSE IF IsShared(c) THEN Ret("weak", cells[c].b)
  ELSE PanicRet

ArcDowngrade(c) ==
  /\ Usable(c)
  /\ \/ /\ \/ /\ FreeBlocks # {}
              /\ DowngradeInline(c, Min(FreeBlocks))
           \/ /\ IsShared(c) /\ blocks[cells[c].b].weak < MaxWeak
              /\ DowngradeShared(c)
        /\ Returns(Call("downgrade", c, 0, "nop"), FALSE)
     \/ Panic(c)

\* --------------------------------------------------------- Arc::make_mut
\* A make_mut that moves an Inline payload into a block first, as if every
\* mutable access went through the shared representation.
MakeMutInlineBoxed(c, w) ==
  /\ IsInline(c) /\ FreeBlocks # {}
  /\ blocks' = StdNew(blocks, Min(FreeBlocks), Apply(w, cells[c].v))
  /\ cells' = [cells EXCEPT ![c] = Shared(Min(FreeBlocks))]

\* Inline arm: the reference into the cell; the caller writes through it.
MakeMutInline(c, w) ==
  /\ IsInline(c)
  /\ cells' = [cells EXCEPT ![c] = Inline(Apply(w, cells[c].v))]
  /\ UNCHANGED blocks

\* A make_mut that hands out a reference into the shared block: the write
\* lands in the payload every handle of the block sees.
MakeMutSharedInPlace(c, w) ==
  /\ IsShared(c)
  /\ blocks' = [blocks EXCEPT ![cells[c].b].val = Apply(w, @)]
  /\ UNCHANGED cells

\* A make_mut that copies into a new allocation, as std's does, and leaves
\* the cell Shared on it.
MakeMutSharedRealloc(c, w) ==
  /\ IsShared(c) /\ FreeBlocks # {}
  /\ blocks' = StdNew(StdDrop(blocks, cells[c].b), Min(FreeBlocks),
                      Apply(w, blocks[cells[c].b].val))
  /\ cells' = [cells EXCEPT ![c] = Shared(Min(FreeBlocks))]

\* Shared arm: T::clone of the block's payload goes into the cell as Inline,
\* the handle mem::replace returns is dropped; the caller writes through the
\* reference into the copy.
MakeMutShared(c, w) ==
  /\ IsShared(c)
  /\ cells' = [cells EXCEPT ![c] = Inline(Apply(w, blocks[cells[c].b].val))]
  /\ blocks' = StdDrop(blocks, cells[c].b)

\* Whether the call runs T::clone.
MakeMutDups(c) == IsShared(c)

ArcMakeMut(c, w) ==
  /\ Usable(c)
  /\ \/ /\ MakeMutInline(c, w) \/ MakeMutShared(c, w)
        /\ Returns(Call("make_mut", c, 0, w), MakeMutDups(c))
     \/ /\ w = "nop"
        /\ Panic(c)

\* ---------------------------------------------------------- Arc::get_mut
\* A get_mut that looks at the counts as std's does: the reference is handed
\* out of a Shared cell that is the only handle of its block.
GetMutRetUnique(c) ==
  IF IsInline(c) THEN Ret("some", cells[c].v)
  ELSE IF IsShared(c)
       THEN IF blocks[cells[c].b].strong = 1 /\ blocks[cells[c].b].weak = 0
            THEN Ret("some", blocks[cells[c].b].val)
            ELSE Ret("none", 0)
  ELSE PanicRet

\* Shared arm: None, whatever the counts; the block is not looked at.
GetMutRet(c) ==
  IF IsInline(c) THEN Ret("some", cells[c].v)
  ELSE IF IsShared(c) THEN Ret("none", 0)
  ELSE PanicRet

ArcGetMut(c, w) ==
  /\ ~ub /\ IsLive(c)
  /\ \/ /\ \/ /\ GetMutRet(c).kind = "some"
              /\ cells' = [cells EXCEPT ![c] = Inline(Apply(w, cells[c].v))]
           \/ /\ GetMutRet(c).kind = "none" /\ w = "nop"
              /\ UNCHANGED cells
        /\ Returns(Call("get_mut", c, 0, w), FALSE)
        /\ UNCHANGED blocks
     \/ /\ w = "nop"
        /\ Panic(c)

\* ------------------------------------------------------- Arc::try_unwrap
\* Ok(val) from Inline; Err(Arc) from Shared, whatever the counts.
TryUnwrapRet(c) ==
  IF IsInline(c) THEN Ret("ok", cells[c].v)
  ELSE IF IsShared(c) THEN Ret("err", c)
  ELSE PanicRet

\* ptr::read copies the ArcData out of `this`; `this` is neither forgotten
\* nor moved, so its ArcData is dropped as well when the function returns.
\* Inline arm: the cell is consumed; val goes to the caller in Ok, and the
\* Inline(val) still in `this` is dropped.
TryUnwrapInline(c) ==
  /\ IsInline(c)
  /\ cells' = [cells EXCEPT ![c] = Dead]
  /\ UNCHANGED blocks

\* Shared arm: the returned Arc holds the copied handle; the drop of `this`
\* releases the same handle once more.
TryUnwrapShared(c) ==
  /\ IsShared(c)
  /\ blocks' = StdDrop(blocks, cells[c].b)
  /\ UNCHANGED cells

\* Whether the payload handed to the caller is dropped with `this` too.
TryUnwrapDropsTwice(c) == IsInline(c)

ArcTryUnwrap(c) ==
  /\ Usable(c)
  /\ \/ /\ TryUnwrapInline(c) \/ TryUnwrapShared(c)
        /\ Returned(Call("try_unwrap", c, 0, "nop"), FALSE, TryUnwrapDropsTwice(c))
     \/ /\ IsPoisoned(c)
        /\ cells' = [cells EXCEPT ![c] = Dead]
        /\ panicked' = TRUE
        /\ gone' = FALSE
        /\ scn' = Off
        /\ trail' = OffTrail
        /\ UNCHANGED <<blocks, ub>>

\* ------------------------------------- Arc::strong_count, Arc::weak_count
StrongCount(c) ==
  IF IsInline(c) THEN Ret("count", 1)
  ELSE IF IsShared(c) THEN Ret("count", blocks[cells[c].b].strong)
  ELSE PanicRet

WeakCount(c) ==
  IF IsInline(c) THEN Ret("count", 0)
  ELSE IF IsShared(c) THEN Ret("count", blocks[cells[c].b].weak)
  ELSE PanicRet

ArcStrongCount(c) ==
  /\ Usable(c)
  /\ \/ /\ StrongCount(c).kind = "count"
        /\ Returns(Call("strong_count", c, 0, "nop"), FALSE)
        /\ UNCHANGED <<cells, blocks>>
     \/ Panic(c)

ArcWeakCount(c) ==
  /\ Usable(c)
  /\ \/ /\ WeakCount(c).kind = "count"
        /\ Returns(Call("weak_count", c, 0, "nop"), FALSE)
        /\ UNCHANGED <<cells, blocks>>
     \/ Panic(c)

\* ------------------------------------------- drop glue of Arc / ArcData
\* A drop that hands the payload back to the last cell left on the block:
\* with no other strong handle and no Weak, that cell becomes Inline again.
ArcDropReverts(c) ==
  /\ Usable(c)
  /\ LET B == IF IsShared(c) THEN StdDrop(blocks, cells[c].b) ELSE blocks
         last == {d \in Cells \ {c} :
                    /\ IsShared(c) /\ cells[d] = cells[c]
                    /\ B[cells[c].b].strong = 1 /\ B[cells[c].b].weak = 0}
     IN /\ cells' = [d \in Cells |->
                      IF d = c THEN Dead
                      ELSE IF d \in last THEN Inline(B[cells[c].b].val)
                      ELSE cells[d]]
        /\ blocks' = IF last = {} THEN B ELSE [B EXCEPT ![cells[c].b] = NoBlock]
  /\ Returns(Call("drop", c, 0, "nop"), FALSE)

ArcDrop(c) ==
  /\ Usable(c)
  /\ cells' = [cells EXCEPT ![c] = Dead]
  /\ blocks' = IF IsShared(c) THEN StdDrop(blocks, cells[c].b) ELSE blocks
  /\ Returns(Call("drop", c, 0, "nop"), FALSE)

\* --------------------------------------------- the Weak<T> the caller got
\* Weak::upgrade and a look at the payload; the upgraded handle is dropped
\* at once.
Upgrade(b) ==
  IF blocks[b].strong > 0 THEN Ret("some", blocks[b].val) ELSE Ret("none", 0)

WeakUpgrade(b) ==
  /\ ~ub /\ blocks[b].weak > 0
  /\ Returns(Call("upgrade", 0, b, "nop"), FALSE)
  /\ UNCHANGED <<cells, blocks>>

WeakRelease(b) ==
  /\ ~ub /\ blocks[b].weak > 0
  /\ blocks' = WeakDrop(blocks, b)
  /\ Returns(Call("drop_weak", 0, b, "nop"), FALSE)
  /\ UNCHANGED cells

\* ------------------------------------------------------- use after free
\* Any call that reads or releases the handle of a dangling cell (get_mut
\* does neither) has undefined behaviour: it may return anything or unwind,
\* and nothing is known of the program afterwards.
UseAfterFree(c) ==
  /\ ~ub /\ Dangling(c)
  /\ ub' = TRUE
  /\ panicked' \in BOOLEAN
  /\ gone' = FALSE
  /\ scn' = Off
  /\ trail' = OffTrail
  /\ UNCHANGED <<cells, blocks>>

\* The runs of Spec: every call of the API, on payloads in Values; the
\* std::sync::Arc run beside it is not driven.
Frame == Bounded(Values)' /\ UNCHANGED <<rvars, thr>>

New == \E c \in Cells, v \in Values : ArcNew(c, v) /\ Frame
Deref == \E c \in Cells : ArcDeref(c) /\ Frame
Clone == \E c \in Cells : ArcClone(c) /\ Frame
Downgrade == \E c \in Cells : ArcDowngrade(c) /\ Frame
MakeMut == \E c \in Cells, w \in Writes : ArcMakeMut(c, w) /\ Frame
GetMut == \E c \in Cells, w \in Writes : ArcGetMut(c, w) /\ Frame
TryUnwrap == \E c \in Cells : ArcTryUnwrap(c) /\ Frame
GetStrongCount == \E c \in Cells : ArcStrongCount(c) /\ Frame
GetWeakCount == \E c \in Cells : ArcWeakCount(c) /\ Frame
Drop == \E c \in Cells : ArcDrop(c) /\ Frame
UpgradeWeak == \E b \in Blocks : WeakUpgrade(b) /\ Frame
DropWeak == \E b \in Blocks : WeakRelease(b) /\ Frame
Undefined == \E c \in Cells : UseAfterFree(c) /\ Frame

Next ==
  \/ New \/ Deref \/ Clone \/ Downgrade \/ MakeMut \/ GetMut \/ TryUnwrap
  \/ GetStrongCount \/ GetWeakCount \/ Drop \/ UpgradeWeak \/ DropWeak
  \/ Undefined

Spec == Init /\ [][Next]_vars

\* ------------------------------------- the same calls on std::sync::Arc
\* tests::make_mut_std: the handle in slot c is rcells[c], the block it
\* names, or 0 when the slot holds none.
RefFree == {b \in Blocks : ~rblocks[b].alloc}

RefNew(c, v) ==
  /\ RefFree # {}
  /\ rblocks' = StdNew(rblocks, Min(RefFree), v)
  /\ rcells' = [rcells EXCEPT ![c] = Min(RefFree)]

RefDerefRet(c) == Ret("val", rblocks[rcells[c]].val)

RefDeref(c) ==
  /\ rcells[c] # 0
  /\ UNCHANGED <<rcells, rblocks>>

RefClone(c, d) ==
  /\ rcells[c] # 0 /\ rcells[d] = 0
  /\ rblocks' = StdClone(rblocks, rcells[c])
  /\ rcells' = [rcells EXCEPT ![d] = rcells[c]]

\* std's Arc::make_mut: the only strong handle (no Weak is ever made here)
\* is written through in place; otherwise the payload is cloned into a new
\* allocation and the old handle dropped.
RefMakeMut(c, w) ==
  /\ rcells[c] # 0
  /\ LET b == rcells[c] IN
       \/ /\ rblocks[b].strong = 1
          /\ rblocks' = [rblocks EXCEPT ![b].val = Apply(w, @)]
          /\ UNCHANGED rcells
       \/ /\ rblocks[b].strong > 1 /\ RefFree # {}
          /\ rblocks' = StdNew(StdDrop(rblocks, b), Min(RefFree), Apply(w, rblocks[b].val))
          /\ rcells' = [rcells EXCEPT ![c] = Min(RefFree)]

RefDrop(c) ==
  /\ rcells[c] # 0
  /\ rblocks' = StdDrop(rblocks, rcells[c])
  /\ rcells' = [rcells EXCEPT ![c] = 0]

\* Both pointers are given the same call, on the payloads of the test; the
\* run ends at the first panic.
Running == ~panicked /\ Bounded(TestVals)' /\ UNCHANGED thr

BothNew == \E c \in Cells : ArcNew(c, InitVal) /\ RefNew(c, InitVal) /\ Running
BothDeref == \E c \in Cells : ArcDeref(c) /\ RefDeref(c) /\ Running
BothClone ==
  \E c \in Cells : ArcClone(c) /\ FreeCells # {} /\ RefClone(c, Min(FreeCells)) /\ Running
BothMakeMut ==
  \E c \in Cells, w \in Writes : ArcMakeMut(c, w) /\ RefMakeMut(c, w) /\ Running
BothDrop == \E c \in Cells : ArcDrop(c) /\ RefDrop(c) /\ Running

NextStd == BothNew \/ BothDeref \/ BothClone \/ BothMakeMut \/ BothDrop

SpecStd == Init /\ [][NextStd]_vars

\* ------------------------------------------- two threads, one cell each
\* Arc<T> is Send (unsafe impl Send) and, holding an UnsafeCell, not Sync: a
\* cell is used by the one thread that owns it, and the threads meet only in
\* the counts of the block, which std::sync::Arc updates atomically.  The
\* main thread makes cell 1, clones it into cell 2 and gives one to each
\* thread; every step below is one atomic access.
ParFrame ==
  /\ gone' = FALSE /\ scn' = Off /\ trail' = OffTrail
  /\ UNCHANGED <<ub, rvars>>

ParNew(v) == thr[1] = Unborn /\ ArcNew(1, v) /\ UNCHANGED <<rvars, thr>>

ParClone == thr[1] = Unborn /\ IsInline(1) /\ ArcClone(1) /\ UNCHANGED <<rvars, thr>>

Spawn ==
  /\ \A t \in Threads : thr[t] = Unborn /\ IsShared(t) /\ cells[t] = cells[1]
  /\ thr' = [t \in Threads |-> Thread("idle", 0, 0)]
  /\ panicked' = FALSE
  /\ UNCHANGED <<cells, blocks>>
  /\ ParFrame

\* A panic! unwinds the thread: its cell (Poisoned, nothing to release) and
\* the clone it holds are dropped.
ParPanic(t) ==
  /\ IsPoisoned(t)
  /\ panicked' = TRUE
  /\ cells' = [cells EXCEPT ![t] = Dead]
  /\ blocks' = IF thr[t].got # 0 THEN StdDrop(blocks, thr[t].got) ELSE blocks
  /\ thr' = [thr EXCEPT ![t] = Thread("done", 0, 0)]

\* *cell: deref of the thread's own cell.
ParDeref(t) ==
  /\ thr[t].pc = "idle" /\ IsLive(t)
  /\ \/ /\ DerefRet(t).kind = "val"
        /\ panicked' = FALSE
        /\ UNCHANGED <<cells, blocks, thr>>
     \/ ParPanic(t)
  /\ ParFrame

\* *clone: deref of the clone the thread holds.
ParDerefGot(t) ==
  /\ thr[t].pc = "idle" /\ thr[t].got # 0
  /\ panicked' = FALSE
  /\ UNCHANGED <<cells, blocks, thr>>
  /\ ParFrame

\* cell.clone(), first step: mem::replace(inner, Poisoned) takes the handle
\* out of the cell.
ParCloneReplace(t) ==
  /\ thr[t].pc = "idle" /\ IsLive(t) /\ thr[t].got = 0
  /\ \/ /\ IsShared(t)
        /\ cells' = [cells EXCEPT ![t] = Poisoned]
        /\ thr' = [thr EXCEPT ![t] = Thread("replaced", cells[t].b, 0)]
        /\ panicked' = FALSE
        /\ UNCHANGED blocks
     \/ ParPanic(t)
  /\ ParFrame

\* second step: val.clone(), an atomic increment of the strong count.
ParCloneInc(t) ==
  /\ thr[t].pc = "replaced"
  /\ blocks' = StdClone(blocks, thr[t].val)
  /\ thr' = [thr EXCEPT ![t].pc = "cloned"]
  /\ UNCHANGED <<cells, panicked>>
  /\ ParFrame

\* third step: the arm ends, val is dropped (an atomic decrement) and the
\* new Arc goes to the caller; nothing was written back into the cell.
ParCloneReturn(t) ==
  /\ thr[t].pc = "cloned"
  /\ blocks' = StdDrop(blocks, thr[t].val)
  /\ thr' = [thr EXCEPT ![t] = Thread("idle", 0, thr[t].val)]
  /\ panicked' = FALSE
  /\ UNCHANGED cells
  /\ ParFrame

\* drop(clone)
ParDropGot(t) ==
  /\ thr[t].pc = "idle" /\ thr[t].got # 0
  /\ blocks' = StdDrop(blocks, thr[t].got)
  /\ thr' = [thr EXCEPT ![t].got = 0]
  /\ panicked' = FALSE
  /\ UNCHANGED cells
  /\ ParFrame

\* drop(cell)
ParDrop(t) ==
  /\ thr[t].pc = "idle" /\ IsLive(t)
  /\ cells' = [cells EXCEPT ![t] = Dead]
  /\ blocks' = IF IsShared(t) THEN StdDrop(blocks, cells[t].b) ELSE blocks
  /\ panicked' = FALSE
  /\ UNCHANGED thr
  /\ ParFrame

MainNew == \E v \in Values : ParNew(v)
ThreadDeref == \E t \in Threads : ParDeref(t)
ThreadDerefClone == \E t \in Threads : ParDerefGot(t)
ThreadCloneReplace == \E t \in Threads : ParCloneReplace(t)
ThreadCloneInc == \E t \in Threads : ParCloneInc(t)
ThreadCloneReturn == \E t \in Threads : ParCloneReturn(t)
ThreadDropClone == \E t \in Threads : ParDropGot(t)
ThreadDrop == \E t \in Threads : ParDrop(t)

NextPar ==
  \/ MainNew \/ ParClone \/ Spawn
  \/ ThreadDeref \/ ThreadDerefClone
  \/ ThreadCloneReplace \/ ThreadCloneInc \/ ThreadCloneReturn
  \/ ThreadDropClone \/ ThreadDrop

SpecPar == Init /\ [][NextPar]_vars

\* ------------------------------------------------------------ the claims
\* C1: no live cell is Poisoned when an operation has returned to the caller
\* (no allocation and no T::clone fails in any run of Spec).
NoCellPoisoned == \A c \in Cells : ~IsPoisoned(c)

\* C2: clone on a Shared cell adds exactly one to the strong count of its
\* block, returns a new Shared cell on that block and leaves the cell it was
\* called on Shared on that block.
CloneSharedAddsOne ==
  [][\A c \in Cells :
       (ArcClone(c) /\ IsShared(c)) =>
         /\ blocks'[cells[c].b].strong = blocks[cells[c].b].strong + 1
         /\ cells'[c] = Shared(cells[c].b)
         /\ cells'[CloneRet(c).v] = Shared(cells[c].b)]_vars

\* C3: after every step of new, clone, make_mut-then-write, deref and drop
\* given to this Arc and to std's Arc alike, no call has panicked and every
\* handle dereferences to the same value in both.
SameAsStd ==
  /\ ~panicked
  /\ \A c \in Cells : rcells[c] # 0 => DerefRet(c) = RefDerefRet(c)

\* C4: a write through make_mut on one cell never changes what any other
\* cell dereferences to, and tests::can_make_mut ends with *data == 8 and
\* *other_data == 12.
CowIsolation ==
  /\ [](scn.k = Len(Script) =>
          DerefRet(1) = Ret("val", 8) /\ DerefRet(2) = Ret("val", 12))
  /\ [][\A c \in Cells, w \in Writes :
          ArcMakeMut(c, w) =>
            \A d \in Cells \ {c} :
              (IsInline(d) \/ IsShared(d)) => DerefRet(d)' = DerefRet(d)]_vars

\* C4 witness: the test has run to its end, both cells written through
\* make_mut after the clone.
CowWitness == scn.k = Len(Script) /\ IsInline(1) /\ IsInline(2)

\* C5: over the six calls of tests::can_make_mut T::clone runs exactly once.
OneDuplication == scn.k = Len(Script) => scn.dups = 1

\* C6: try_unwrap on a Shared cell whose block has another strong handle
\* fails, gives back a Shared cell on the same block and leaves the strong
\* count as it was.
TryUnwrapKeepsCount ==
  [][\A c \in Cells :
       (ArcTryUnwrap(c) /\ IsShared(c) /\ blocks[cells[c].b].strong > 1) =>
         /\ TryUnwrapRet(c).kind = "err"
         /\ cells'[c] = Shared(cells[c].b)
         /\ blocks'[cells[c].b].strong = blocks[cells[c].b].strong]_vars

\* C7: try_unwrap on a Shared cell returns the payload exactly when the cell
\* is the last strong handle of its block and no Weak is outstanding.
TryUnwrapLastHandle ==
  [][\A c \in Cells :
       (ArcTryUnwrap(c) /\ IsShared(c)) =>
         (TryUnwrapRet(c).kind = "ok"
            <=> (blocks[cells[c].b].strong = 1 /\ blocks[cells[c].b].weak = 0))]_vars

\* C8: downgrade on a cell that is not Poisoned leaves it Shared on the block
\* of the returned Weak, with strong_count as before and weak_count one
\* higher.
DowngradeKeepsShared ==
  [][\A c \in Cells :
       (ArcDowngrade(c) /\ ~IsPoisoned(c)) =>
         /\ cells'[c] = Shared(DowngradeRet(c).v)
         /\ StrongCount(c)' = StrongCount(c)
         /\ WeakCount(c)' = Ret("count", WeakCount(c).v + 1)]_vars

\* C9: the Weak that downgrade returns upgrades, right after the call, to
\* the value the cell held before the call.
WeakRoundTrip ==
  [][\A c \in Cells, b \in Blocks :
       (ArcDowngrade(c) /\ ~IsPoisoned(c) /\ b = DowngradeRet(c).v) =>
         Upgrade(b)' = Ret("some", DerefRet(c).v)]_vars

\* C10: clone on an Inline cell leaves the cell and the returned cell Shared
\* on one block that was not allocated before, both dereferencing to the
\* original payload, with strong_count 2 and weak_count 0 from either.
ClonePromotes ==
  [][\A c, d \in Cells :
       (ArcClone(c) /\ IsInline(c) /\ d = CloneRet(c).v) =>
         /\ IsShared(c)' /\ IsShared(d)' /\ cells'[c] = cells'[d]
         /\ ~blocks[cells'[c].b].alloc
         /\ DerefRet(c)' = DerefRet(c) /\ DerefRet(d)' = DerefRet(c)
         /\ StrongCount(c)' = Ret("count", 2) /\ StrongCount(d)' = Ret("count", 2)
         /\ WeakCount(c)' = Ret("count", 0) /\ WeakCount(d)' = Ret("count", 0)]_vars

\* C10 witness: the third call of the test, the clone of an Inline cell, has
\* just returned.
ClonePromotesWitness ==
  scn.k = 3 /\ IsShared(1) /\ IsShared(2) /\ cells[1].b = cells[2].b

\* C11: get_mut hands out the reference to the payload exactly when the cell
\* is Inline; on a Shared cell it returns None whatever the counts of the
\* block; and it changes neither the state of any cell nor any block.
GetMutOnlyExclusive ==
  [][\A c \in Cells :
       (IsInline(c) \/ IsShared(c)) =>
         /\ GetMutRet(c).kind = "some" <=> IsInline(c)
         /\ IsInline(c) => GetMutRet(c) = Ret("some", DerefRet(c).v)
         /\ IsShared(c) => GetMutRet(c) = Ret("none", 0)
         /\ (\E w \in Writes : ArcGetMut(c, w)) =>
              /\ cells'[c].st = cells[c].st /\ cells'[c].b = cells[c].b
              /\ \A d \in Cells \ {c} : cells'[d] = cells[d]
              /\ blocks' = blocks]_vars

\* C11 witness: get_mut was called on both cells right after the promotion
\* by clone, then on the first once its only clone was dropped; it is still
\* Shared, with strong count 1 and weak count 0.
GetMutWitness ==
  /\ trail = GetMutScenario
  /\ IsShared(1) /\ ~IsLive(2)
  /\ StrongCount(1) = Ret("count", 1) /\ WeakCount(1) = Ret("count", 0)

\* C12: for every payload v, new(v) gives an Inline cell and allocates no
\* block: strong_count is 1, weak_count is 0, get_mut hands out v and deref
\* returns v.
NewIsExclusive ==
  [][\A c \in Cells, v \in Values :
       ArcNew(c, v) =>
         /\ cells'[c] = Inline(v)
         /\ blocks' = blocks
         /\ \A d \in Cells \ {c} : cells'[d] = cells[d]
         /\ StrongCount(c)' = Ret("count", 1) /\ WeakCount(c)' = Ret("count", 0)
         /\ GetMutRet(c)' = Ret("some", v) /\ DerefRet(c)' = Ret("val", v)]_vars

\* C12 witness: new(2), then strong_count, weak_count, get_mut and deref on
\* the new cell; no block exists.
NewWitness ==
  /\ trail = NewScenario
  /\ cells[1] = Inline(2)
  /\ \A b \in Blocks : ~blocks[b].alloc

\* C13: try_unwrap on an Inline cell returns Ok with the payload the cell
\* held, whatever was written through make_mut and get_mut before, consumes
\* the cell, and leaves the payload to the caller alone: it is not destroyed
\* with the consumed cell.
TryUnwrapExclusive ==
  [][\A c \in Cells :
       (ArcTryUnwrap(c) /\ IsInline(c)) =>
         /\ TryUnwrapRet(c) = Ret("ok", DerefRet(c).v)
         /\ ~IsLive(c)'
         /\ ~gone']_vars

\* C14: every call on a Poisoned cell (deref, clone, downgrade, get_mut,
\* make_mut, try_unwrap, strong_count, weak_count) panics: none has a value
\* to return and none leaves the cell Inline or Shared.
PoisonedAlwaysPanics ==
  [][\A c \in Cells :
       IsPoisoned(c) =>
         /\ DerefRet(c) = PanicRet /\ CloneRet(c) = PanicRet
         /\ DowngradeRet(c) = PanicRet /\ GetMutRet(c) = PanicRet
         /\ TryUnwrapRet(c) = PanicRet
         /\ StrongCount(c) = PanicRet /\ WeakCount(c) = PanicRet
         /\ ( \/ ArcDeref(c) \/ ArcClone(c) \/ ArcDowngrade(c)
              \/ \E w \in Writes : ArcGetMut(c, w) \/ ArcMakeMut(c, w)
              \/ ArcTryUnwrap(c) \/ ArcStrongCount(c) \/ ArcWeakCount(c) )
            => (panicked' /\ ~IsInline(c)' /\ ~IsShared(c)')]_vars

\* C14 witness: a call on a Poisoned cell has just panicked, the cell still
\* Poisoned.
PoisonedWitness == panicked /\ ~ub /\ \E c \in Cells : IsPoisoned(c)

\* C15: in every reachable state the strong count of every block is the
\* number of live Shared cells that hold a handle to it (a handle obtained
\* by upgrading a Weak is dropped within the step that made it).
StrongCountsHolders ==
  \A b \in Blocks :
    blocks[b].strong = Cardinality({c \in Cells : IsShared(c) /\ cells[c].b = b})

\* Another live cell holds the block of c, or a Weak names it.
HasOthers(c) ==
  /\ IsShared(c)
  /\ \/ \E d \in Cells \ {c} : cells[d] = cells[c]
     \/ blocks[cells[c].b].weak > 0

Holders(b) ==
  Cardinality({c \in Cells : IsShared(c) /\ cells[c].b = b})
    + Cardinality({t \in Threads : thr[t].val = b})
    + Cardinality({t \in Threads : thr[t].got = b})

\* C17: with two cells of one block each driven by its own thread through
\* clone, deref and drop steps in any interleaving, a deref of a cell that
\* was not dropped returns the payload whenever its thread stands between
\* two calls, no call panics, and the payload of a block is there as long as
\* a handle to the block is alive.
ParCellsUsable ==
  /\ ~panicked
  /\ \A t \in Threads :
       (thr[t].pc = "idle" /\ IsLive(t)) => DerefRet(t).kind = "val"
  /\ \A b \in Blocks : Holders(b) > 0 => blocks[b].strong > 0

\* C18: a step that takes a cell from Shared to Inline is a make_mut on that
\* cell, and no other call or drop is; make_mut on a Shared cell always
\* leaves it Inline, holding what the caller wrote over a copy of the
\* payload, with every other cell and the payload of the block as they were.
OnlyMakeMutReverts ==
  [][\A c \in Cells :
       IsShared(c) =>
         /\ IsInline(c)' => \E w \in Writes : ArcMakeMut(c, w)
         /\ \A w \in Writes :
              ArcMakeMut(c, w) =>
                /\ cells'[c] = Inline(Apply(w, DerefRet(c).v))
                /\ \A d \in Cells \ {c} : cells'[d] = cells[d]
                /\ \A b \in Blocks :
                     blocks'[b].strong > 0 => blocks'[b].val = blocks[b].val]_vars

\* C18 witness: make_mut on cell 1 while cell 2 shares its block: cell 1 is
\* Inline with the written value, cell 2 still reads the old one.
MakeMutWitness ==
  /\ trail = MakeMutScenario
  /\ cells[1] = Inline(2)
  /\ IsShared(2) /\ DerefRet(2) = Ret("val", 1)

\* C19: a block is allocated only by clone or downgrade on an Inline cell,
\* which is then the only existing cell that changes; new allocates no block
\* and gives an Inline cell; deref, get_mut, make_mut, strong_count and
\* weak_count on an Inline cell allocate no block and leave it Inline;
\* try_unwrap on an Inline cell allocates no block and does not promote the
\* cell it consumes; clone and downgrade on a Shared cell allocate no block.
\* (Each effect is written as: it holds, or the step is none of these calls.)
LazyPromotion ==
  [][/\ \A b \in Blocks :
          (~blocks[b].alloc /\ blocks'[b].alloc) =>
            \E c \in Cells :
              /\ IsInline(c) /\ (ArcClone(c) \/ ArcDowngrade(c))
              /\ cells'[c] = Shared(b)
              /\ \A d \in Cells \ {c} : IsLive(d) => cells'[d] = cells[d]
     /\ \A c \in Cells :
          /\ (~IsLive(c) /\ \E v \in Values : ArcNew(c, v)) =>
               (blocks' = blocks /\ IsInline(c)')
          /\ IsInline(c) =>
               /\ \/ blocks' = blocks /\ IsInline(c)'
                  \/ ~( \/ ArcDeref(c) \/ ArcStrongCount(c) \/ ArcWeakCount(c)
                        \/ \E w \in Writes : ArcGetMut(c, w) \/ ArcMakeMut(c, w) )
               /\ \/ blocks' = blocks /\ TryUnwrapRet(c).kind = "ok" /\ ~IsShared(c)'
                  \/ ~ArcTryUnwrap(c)
          /\ IsShared(c) =>
               \/ \A b \in Blocks : blocks'[b].alloc => blocks[b].alloc
               \/ ~(ArcClone(c) \/ ArcDowngrade(c))]_vars

\* C19 witness: new and deref allocated nothing, the downgrade that followed
\* allocated block 1 and promoted the one cell there is.
LazyPromotionWitness ==
  /\ trail = DowngradeScenario
  /\ cells[1] = Shared(1) /\ blocks[1].alloc /\ ~blocks[2].alloc
  /\ StrongCount(1) = Ret("count", 1) /\ WeakCount(1) = Ret("count", 1)

\* C20: no payload is destroyed while a value handed to the caller or a live
\* Shared cell still owns it, and no handle is released a second time: no
\* call leaves a payload both returned and destroyed, no live cell names a
\* block whose payload is gone, and no call touches freed memory.
PayloadLifetime ==
  /\ ~gone
  /\ \A c \in Cells : ~Dangling(c)
  /\ ~ub

====
